---- MODULE Spec2Model ----
(***************************************************************************)
(* Delivery pipeline of the email microservice: EmailProcessor            *)
(* (src/src/processor/email-processor.ts) consuming SendEmailEvents from  *)
(* a queue adapter (RabbitMQ or SQS), with the quota rows, the account    *)
(* row and the email_logs rows of the external store.                     *)
(*                                                                         *)
(* One handler invocation is split at its awaits on the shared store, so  *)
(* that several consumers interleave exactly where the code can be        *)
(* suspended.                                                              *)
(***************************************************************************)
EXTENDS Integers, Sequences, FiniteSets, TLC

\* ------------------------------------------------------------------ bounds
MaxDeliveries == 2
MaxAccountUpdates == 1
MaxSetting == 2
MaxAdvances == 2

\* ------------------------------------------------------- program constants
MaxRetries == 3
QuotaDelayMs == 3600000
BackoffBaseMs == 60000
ExceptionDelayMs == 30000
SqsMaxDelaySeconds == 900
RabbitDelayQueueTtlMs == 60000
SqsVisibilityTimeoutMs == 30000
MaxStage == 10

Adapters == {"rabbitmq", "sqs"}

AccountStatuses == {"INACTIVE", "WARMING_UP", "ACTIVE"}

\* Fixed vocabulary of provider error codes (provider.interface.ts / mapErrorCode).
ErrorCodes ==
    {"RATE_LIMIT_EXCEEDED", "TEMPORARY_ERROR", "CONNECTION_ERROR", "TIMEOUT",
     "SERVER_ERROR", "UNAUTHORIZED", "FORBIDDEN", "NOT_FOUND", "UNKNOWN_ERROR"}

\* What provider.sendEmail can hand back: success, a failure with a code, a
\* failure without a code ("NO_CODE").
SendResults == {"SUCCESS", "NO_CODE"} \cup ErrorCodes

\* Recipient of a SendEmailEvent: an explicit address of one of four kinds, or
\* no toAddress at all ("absent").
AddrKinds == {"ok", "badformat", "disposable", "nomx"}
RcptKinds == AddrKinds \cup {"absent"}

LogStatuses == {"QUEUED", "PROCESSING", "SENT", "FAILED", "REJECTED", "REQUEUED"}

VARIABLES
    cfg,        \* deployment: queue adapter, consumers running, inputs offered
    account,    \* the email_accounts row of the (tenant, user) of the requests
    usage,      \* today's quota_usage row of the account
    mainQ,      \* messages deliverable on the send-email queue
    delayQ,     \* messages on the delay path
    deadQ,      \* dead-lettered messages
    nPublished, \* SendRequests published by the API so far
    nDeliv,     \* deliveries made by the broker so far
    proc,       \* per consumer: position and locals of handleSendEmailEvent
    hist        \* history: what happened, for stating the properties

vars == <<cfg, account, usage, mainQ, delayQ, deadQ,
          nPublished, nDeliv, proc, hist>>

\* Ids of the messages already in the queue when the processor starts, and of
\* those the API publishes afterwards.
BacklogIds == {101, 102}
PublishIds == {1}
MsgIds == PublishIds \cup BacklogIds
AllConsumers == {"c1", "c2"}

\* ------------------------------------------------------------------ store
NoUsage == [present |-> FALSE, sent |-> 0, failed |-> 0, remaining |-> 0]

NoLog == [status |-> "NONE", trail |-> <<>>]

NoMsg == [id |-> 0, rcpt |-> "none", retryCount |-> 0]

NoOp == [kind |-> "none", msg |-> NoMsg, requeue |-> FALSE, delay |-> 0]

\* Accounts the store can hold when the processor starts ("NONE": no row for
\* the (tenant, user) of the requests).
InitAccounts ==
    { [status |-> "NONE", provider |-> "GMAIL", credentials |-> "c0",
       quotaSettings |-> [dailyLimit |-> 1, warmupStep |-> 1, maxLimit |-> 2, currentStage |-> 1]],
      [status |-> "INACTIVE", provider |-> "GMAIL", credentials |-> "c0",
       quotaSettings |-> [dailyLimit |-> 1, warmupStep |-> 1, maxLimit |-> 2, currentStage |-> 1]],
      [status |-> "WARMING_UP", provider |-> "SMTP", credentials |-> "c0",
       quotaSettings |-> [dailyLimit |-> 1, warmupStep |-> 1, maxLimit |-> 2, currentStage |-> 2]],
      [status |-> "ACTIVE", provider |-> "GMAIL", credentials |-> "c0",
       quotaSettings |-> [dailyLimit |-> 1, warmupStep |-> 1, maxLimit |-> 1, currentStage |-> 1]],
      [status |-> "ACTIVE", provider |-> "SMTP", credentials |-> "c0",
       quotaSettings |-> [dailyLimit |-> 1, warmupStep |-> 1, maxLimit |-> 2, currentStage |-> 1]] }

\* ------------------------------------------------------- pure functions
Min(a, b) == IF a <= b THEN a ELSE b
Max(a, b) == IF a >= b THEN a ELSE b

\* EmailValidator.validateEmail, by the kind of the address it is given.
ValidateEmail(kind) ==
    IF kind = "badformat"
      THEN [valid |-> FALSE, reachable |-> FALSE, disposable |-> FALSE]
    ELSE IF kind = "disposable"
      THEN [valid |-> TRUE, reachable |-> FALSE, disposable |-> TRUE]
    ELSE [valid |-> TRUE, reachable |-> (kind = "ok"), disposable |-> FALSE]

\* Variant of the handler's test without the disposable branch.
RejectsInvalidOnly(v) == ~v.valid

\* The test `!validationResult.valid` / `validationResult.disposable` of the handler.
RejectsRecipient(v) == (~v.valid) \/ v.disposable

\* Variant of calculateDailyLimit without the cap at maxLimit.
CalculateDailyLimitUncapped(acc) ==
    IF acc.status = "INACTIVE" THEN 0
    ELSE IF acc.status = "ACTIVE" THEN acc.quotaSettings.maxLimit
    ELSE acc.quotaSettings.dailyLimit
           + acc.quotaSettings.warmupStep * (acc.quotaSettings.currentStage - 1)

\* EmailProcessor.calculateDailyLimit
CalculateDailyLimit(acc) ==
    IF acc.status = "INACTIVE" THEN 0
    ELSE IF acc.status = "ACTIVE" THEN acc.quotaSettings.maxLimit
    ELSE Min(acc.quotaSettings.dailyLimit
               + acc.quotaSettings.warmupStep * (acc.quotaSettings.currentStage - 1),
             acc.quotaSettings.maxLimit)

\* The row checkQuota / updateQuotaUsage build when the day has none.
FreshUsage(acc) ==
    [present |-> TRUE, sent |-> 0, failed |-> 0,
     remaining |-> CalculateDailyLimit(acc)]

\* `usage.remaining <= 0` of checkQuota.
QuotaDenied(u) == u.remaining <= 0

\* Variant of the in-memory update without the floor `Math.max(0, ...)`.
RecordOutcomeUnfloored(u, success) ==
    IF success
      THEN [u EXCEPT !.sent = @ + 1, !.remaining = @ - 1]
      ELSE [u EXCEPT !.failed = @ + 1]

\* The in-memory update of updateQuotaUsage.
RecordOutcome(u, success) ==
    IF success
      THEN [u EXCEPT !.sent = @ + 1, !.remaining = Max(0, @ - 1)]
      ELSE [u EXCEPT !.failed = @ + 1]

\* EmailProcessor.shouldRetryError
TemporaryFailures ==
    {"RATE_LIMIT_EXCEEDED", "TEMPORARY_ERROR", "CONNECTION_ERROR", "TIMEOUT", "SERVER_ERROR"}

ShouldRetryError(errorCode) == errorCode \in TemporaryFailures

\* `result.error?.code ? this.shouldRetryError(result.error.code) : false`
ShouldRetry(res) == IF res \in ErrorCodes THEN ShouldRetryError(res) ELSE FALSE

\* Variant of the retry test that still retries at the cap.
RetryAllowedAtCap(ev) == ev.retryCount <= MaxRetries

\* `(event.retryCount || 0) < 3`
RetryAllowed(ev) == ev.retryCount < MaxRetries

\* Variant of the backoff computed from the counter of the delivery.
BackoffDelayOfDelivered(retryCount) == (2 ^ (retryCount - 1)) * BackoffBaseMs

\* `Math.pow(2, retryCount) * 60000`
BackoffDelay(retryCount) == (2 ^ retryCount) * BackoffBaseMs

\* Variant of the exception-path delay that does not grow with the attempt.
ExceptionDelayFlat(retryCount) == ExceptionDelayMs

\* `30000 * retryCount`
ExceptionDelay(retryCount) == ExceptionDelayMs * retryCount

\* Variant of the next attempt that counts a failure twice.
NextAttemptTwice(ev) == [ev EXCEPT !.retryCount = @ + 2]

\* `{ ...event, retryCount }` with retryCount = (event.retryCount || 0) + 1
NextAttempt(ev) == [ev EXCEPT !.retryCount = @ + 1]

\* Variant of the quota branch that counts a deferral as an attempt.
QuotaDeferredCounted(ev) == [ev EXCEPT !.retryCount = @ + 1]

\* The event the quota branch hands to nack: `event` itself.
QuotaDeferred(ev) == ev

\* content._originalMessage = msg
WithHandle(m, h) == [id |-> m.id, rcpt |-> m.rcpt, retryCount |-> m.retryCount, handle |-> h]

\* A copy that still carries the transport handle.
StripHandleKept(e) == e

\* `delete updatedMessage._originalMessage` and JSON.stringify
StripHandle(e) == [id |-> e.id, rcpt |-> e.rcpt, retryCount |-> e.retryCount]

\* How long the broker holds a message published with `delay`.
SqsHoldMs(delay) == Min(delay \div 1000, SqsMaxDelaySeconds) * 1000
RabbitHoldMs(delay) == Min(delay, RabbitDelayQueueTtlMs)
HoldMs(adapter, delay) == IF adapter = "sqs" THEN SqsHoldMs(delay) ELSE RabbitHoldMs(delay)

\* resolveEmailAddress returns the `email` column of the ACTIVE account, the
\* address the provider authorized: a well-formed, reachable one.
AccountAddrKind == "ok"

\* provider.refreshCredentials is optional: SMTPProvider has none.
RefreshSupported(provider) == provider \in {"GMAIL", "OUTLOOK"}

\* ------------------------------------------------------------------ logs
\* logEvent: the row the handler inserts, with the statuses written to it so far.
LogEvent(status) == [status |-> status, trail |-> <<status>>]

\* Variant of the update that writes the details but not the status column.
UpdateLogStatusDetailsOnly(row, status) ==
    IF row.status = "NONE" THEN row
    ELSE [status |-> row.status, trail |-> Append(row.trail, status)]

\* UPDATE email_logs SET status = $1 ... WHERE id = $n
UpdateLogStatus(row, status) ==
    IF row.status = "NONE" THEN row
    ELSE [status |-> status, trail |-> Append(row.trail, status)]

\* ------------------------------------------------------------ initial state
NoAccountSnapshot ==
    [status |-> "NONE", provider |-> "GMAIL", credentials |-> "c0",
     quotaSettings |-> [dailyLimit |-> 0, warmupStep |-> 0, maxLimit |-> 0, currentStage |-> 0]]

\* Step 5 of an invocation so far: evaluations of provider.validateCredentials,
\* token refreshes attempted (by the handler or inside validateCredentials),
\* whether credentials were found invalid, whether a refresh succeeded and
\* whether refreshed credentials were written to the account.
NoCred == [validations |-> 0, refreshes |-> 0, invalid |-> FALSE,
           refreshed |-> FALSE, persisted |-> FALSE]

\* A consumer that is not handling a message.
IdleProc ==
    [pc |-> "idle", ev |-> NoMsg, log |-> NoLog, toKind |-> "none",
     acct |-> NoAccountSnapshot, qc |-> "none", usage |-> NoUsage,
     read |-> NoUsage, wrote |-> FALSE, cred |-> NoCred,
     res |-> "none", op |-> NoOp, exc |-> "none", settled |-> 0]

\* POST /send: build the event (no retryCount yet) and publish it.
SendEvent(id, rcpt) == [id |-> id, rcpt |-> rcpt, retryCount |-> 0]

\* A quota_usage row the day can already have: none, or an exhausted one.
InitUsages(acc) ==
    {NoUsage} \cup
    (IF acc.status \in {"WARMING_UP", "ACTIVE"}
       THEN {[present |-> TRUE, sent |-> CalculateDailyLimit(acc), failed |-> 0, remaining |-> 0]}
       ELSE {})

\* Messages the durable queue can already hold: published earlier, possibly
\* already requeued after failures (retryCount in 0..3).
BacklogMsgs(ids) ==
    { [id |-> i, rcpt |-> "ok", retryCount |-> r] : i \in ids, r \in 1..MaxRetries }
    \cup { [id |-> i, rcpt |-> "absent", retryCount |-> MaxRetries] : i \in ids }

InitHist(u, q) ==
    [deferrals |-> [i \in MsgIds |-> 0],
     failRequeues |-> [i \in MsgIds |->
                         IF \E m \in q : m.id = i
                           THEN (CHOOSE m \in q : m.id = i).retryCount
                           ELSE 0],
     succ |-> u.sent,
     failc |-> u.failed,
     updates |-> 0,
     week |-> <<>>,
     advances |-> 0,
     closedAt |-> -1]

InitCommon ==
    /\ delayQ = {}
    /\ deadQ = {}
    /\ nPublished = IF mainQ = {} THEN 0 ELSE Cardinality(PublishIds)
    /\ nDeliv = 0
    /\ proc = [c \in AllConsumers |-> IdleProc]
    /\ hist = InitHist(usage, mainQ)

\* One consumer process on either adapter; the queue is empty or holds one
\* message; the stores can fail.
InitSingle ==
    /\ cfg \in [adapter : Adapters, consumers : {{"c1"}}, sendResults : {SendResults},
                storeFaults : {TRUE}, logFaults : {TRUE}, providerFaults : {TRUE},
                recoveryFaults : {FALSE}]
    /\ account \in InitAccounts
    /\ usage \in InitUsages(account)
    /\ mainQ \in {{}} \cup { {m} : m \in BacklogMsgs({101}) }
    /\ InitCommon

\* Two consumer processes on the same queue, which holds two fresh messages;
\* the stores answer every call.
InitConc ==
    /\ cfg \in [adapter : Adapters, consumers : {AllConsumers},
                sendResults : {{"SUCCESS", "TIMEOUT"}},
                storeFaults : {FALSE}, logFaults : {FALSE}, providerFaults : {FALSE},
                recoveryFaults : {FALSE}]
    /\ account \in { a \in InitAccounts : a.status = "ACTIVE" }
    /\ usage \in {NoUsage, FreshUsage(account)}
    /\ mainQ = { SendEvent(i, "ok") : i \in BacklogIds }
    /\ InitCommon

Init == InitSingle \/ InitConc

\* The account as POST /accounts creates it (INACTIVE, first stage), or
\* already put into warm-up; what PUT /accounts/:id can write afterwards.
CreatedQuotaSettings == [dailyLimit |-> 1, warmupStep |-> 1, maxLimit |-> 2, currentStage |-> 1]

ApiQuotaSettings ==
    { CreatedQuotaSettings,
      [dailyLimit |-> 1, warmupStep |-> 1, maxLimit |-> -1, currentStage |-> 1] }

\* One consumer, answering stores and provider, and an operator who updates
\* the account through the API while messages are handled.
InitAdmin ==
    /\ cfg \in [adapter : Adapters, consumers : {{"c1"}},
                sendResults : {{"SUCCESS", "TIMEOUT"}},
                storeFaults : {FALSE}, logFaults : {FALSE}, providerFaults : {FALSE},
                recoveryFaults : {FALSE}]
    /\ account \in { [status |-> st, provider |-> "SMTP", credentials |-> "c0",
                       quotaSettings |-> CreatedQuotaSettings] :
                        st \in {"INACTIVE", "WARMING_UP"} }
    /\ usage = NoUsage
    /\ mainQ = {}
    /\ InitCommon

\* Whether a call to the quota / account store, or to the log store, fails.
StoreFaults == IF cfg.storeFaults THEN BOOLEAN ELSE {FALSE}
LogFaults == IF cfg.logFaults THEN BOOLEAN ELSE {FALSE}
\* Whether a call to the provider (initialize, validateCredentials,
\* refreshCredentials) throws or answers in the negative.
ProviderFaults == IF cfg.providerFaults THEN BOOLEAN ELSE {FALSE}
\* Whether the adapter's own recovery call for a message whose handler threw
\* (ChangeMessageVisibility, channel.nack) fails.
RecoveryFaults == IF cfg.recoveryFaults THEN BOOLEAN ELSE {FALSE}

\* ------------------------------------------------------- handler plumbing
SetProc(c, p) == proc' = [proc EXCEPT ![c] = p]

\* Control enters the catch block: of the handler's locals only `event` and
\* `logId` are in scope there (`res` and `wrote` are kept as history of the
\* invocation).
InCatch(p) ==
    [IdleProc EXCEPT !.pc = "catch", !.exc = "error", !.ev = p.ev, !.log = p.log,
                     !.res = p.res, !.wrote = p.wrote]

\* Variant of the log step that goes on before the row is written.
LogThenDeferred(c, p, status, next, logFails) ==
    IF logFails
      THEN SetProc(c, InCatch(p))
      ELSE SetProc(c, next)

\* Variant of the log step whose error arrives after the row was written.
LogThenWritten(c, p, status, next, logFails) ==
    IF logFails
      THEN SetProc(c, InCatch([p EXCEPT !.log = UpdateLogStatus(p.log, status)]))
      ELSE SetProc(c, [next EXCEPT !.log = UpdateLogStatus(p.log, status)])

\* `await this.loggingRepository.updateLogStatus(logId, status, ...)` inside the
\* try block, then continue as `next`; a failing log store throws into the catch.
LogThen(c, p, status, next, logFails) ==
    IF logFails
      THEN SetProc(c, InCatch(p))
      ELSE SetProc(c, [next EXCEPT !.log = UpdateLogStatus(p.log, status)])

\* A statement of the try block throws.
Throw(c, p) == SetProc(c, InCatch(p))

AckOp(ev) == [kind |-> "ack", msg |-> ev, requeue |-> FALSE, delay |-> 0]
NackOp(ev, requeue, delay) == [kind |-> "nack", msg |-> ev, requeue |-> requeue, delay |-> delay]

\* `return this.queueAdapter.ack(event)` after the log update `status`.
EndWithAck(c, p, status, logFails) ==
    LogThen(c, p, status, [p EXCEPT !.pc = "queueOp", !.op = AckOp(p.ev)], logFails)

\* ------------------------------------------------------------------ actions
\* The broker delivers a message of the main queue to a consumer; the handler
\* starts and inserts its log row (logEvent, before the try block).
Receive(c) ==
    /\ c \in cfg.consumers
    /\ proc[c].pc = "idle"
    /\ nDeliv < MaxDeliveries
    /\ \E m \in mainQ, logFails \in LogFaults :
         LET p == [IdleProc EXCEPT !.ev = WithHandle(m, nDeliv + 1)]
         IN  /\ mainQ' = mainQ \ {m}
             /\ IF logFails
                  THEN SetProc(c, [p EXCEPT !.pc = "thrown", !.exc = "error"])
                  ELSE SetProc(c, [p EXCEPT !.pc = "validate", !.log = LogEvent("PROCESSING")])
    /\ nDeliv' = nDeliv + 1
    /\ UNCHANGED <<cfg, account, usage, delayQ, deadQ, nPublished, hist>>

\* Steps 1 and 2: resolve the recipient when the event has none, validate it.
Validate(c) ==
    /\ proc[c].pc = "validate"
    /\ \E storeFails \in StoreFaults, logFails \in LogFaults :
         LET p == proc[c]
             absent == p.ev.rcpt = "absent"
             unresolved == absent /\ (storeFails \/ account.status # "ACTIVE")
             kind == IF absent THEN AccountAddrKind ELSE p.ev.rcpt
         IN  IF unresolved
               THEN Throw(c, p)
             ELSE IF RejectsRecipient(ValidateEmail(kind))
               THEN EndWithAck(c, [p EXCEPT !.toKind = kind], "REJECTED", logFails)
             ELSE SetProc(c, [p EXCEPT !.pc = "account", !.toKind = kind])
    /\ UNCHANGED <<cfg, account, usage, mainQ, delayQ, deadQ, nPublished, nDeliv, hist>>

\* Variant of the account test that lets an INACTIVE account through.
AccountUnusableMissingOnly(acc) == acc.status = "NONE"

\* `!account` or `account.status === 'INACTIVE'`
AccountUnusable(acc) == acc.status = "NONE" \/ acc.status = "INACTIVE"

\* Step 3: getEmailAccount and the INACTIVE test.
Account(c) ==
    /\ proc[c].pc = "account"
    /\ \E storeFails \in StoreFaults, logFails \in LogFaults :
         LET p == proc[c]
         IN  IF storeFails
               THEN Throw(c, p)
             ELSE IF AccountUnusable(account)
               THEN EndWithAck(c, p, "REJECTED", logFails)
             ELSE SetProc(c, [p EXCEPT !.pc = "checkQuota", !.acct = account])
    /\ UNCHANGED <<cfg, account, usage, mainQ, delayQ, deadQ, nPublished, nDeliv, hist>>

\* Variant of checkQuota whose catch block lets the send go on.
CheckQuotaResultFailOpen(qc) ==
    [allowed |-> qc \in {"allowed", "error"},
     reason |-> IF qc = "denied" THEN "Daily quota exceeded" ELSE "none"]

\* What checkQuota returns: from its body ("allowed", "denied") or from its
\* catch block ("error": a quota-store call rejected).
CheckQuotaResult(qc) ==
    [allowed |-> qc = "allowed",
     reason |-> CASE qc = "denied" -> "Daily quota exceeded"
                  [] qc = "error" -> "Error checking quota"
                  [] OTHER -> "none"]

\* The handler's reaction to the result `qc` of checkQuota.
AfterQuota(c, p, qc, logFails) ==
    IF CheckQuotaResult(qc).allowed
      THEN SetProc(c, [p EXCEPT !.pc = "dispatch", !.qc = qc])
      ELSE LogThen(c, [p EXCEPT !.qc = qc], "REQUEUED",
                   [p EXCEPT !.pc = "queueOp", !.qc = qc,
                             !.op = NackOp(QuotaDeferred(p.ev), TRUE, QuotaDelayMs)],
                   logFails)

\* Step 4, checkQuota up to its first write: getAccount, getQuotaUsage.
CheckQuota(c) ==
    /\ proc[c].pc = "checkQuota"
    /\ \E storeFails \in StoreFaults, logFails \in LogFaults :
         LET p == proc[c]
         IN  IF storeFails \/ account.status = "NONE"
               THEN AfterQuota(c, p, "error", logFails)
             ELSE IF usage.present
               THEN AfterQuota(c, [p EXCEPT !.usage = usage],
                               IF QuotaDenied(usage) THEN "denied" ELSE "allowed", logFails)
             ELSE SetProc(c, [p EXCEPT !.pc = "cqSave", !.usage = FreshUsage(account)])
    /\ UNCHANGED <<cfg, account, usage, mainQ, delayQ, deadQ, nPublished, nDeliv, hist>>

\* saveQuotaUsage: INSERT ... ON CONFLICT (account_id, date) DO UPDATE SET ...
SaveQuotaUsage(stored, row) == row

\* Step 4, the lazy creation of the day's row and the decision.
CqSave(c) ==
    /\ proc[c].pc = "cqSave"
    /\ \E storeFails \in StoreFaults, logFails \in LogFaults :
         LET p == proc[c]
         IN  IF storeFails
               THEN /\ usage' = usage
                    /\ AfterQuota(c, p, "error", logFails)
               ELSE /\ usage' = SaveQuotaUsage(usage, p.usage)
                    /\ AfterQuota(c, [p EXCEPT !.wrote = TRUE],
                                  IF QuotaDenied(p.usage) THEN "denied" ELSE "allowed",
                                  logFails)
    /\ UNCHANGED <<cfg, account, mainQ, delayQ, deadQ, nPublished, nDeliv, hist>>

\* What provider.validateCredentials can answer. GmailProvider and
\* OutlookProvider catch every error; on a 401 they refresh the token
\* themselves and answer true if that worked ("refreshedInside", the new
\* token stays in the provider object) and false if not
\* ("refreshFailedInside"); any other error gives false ("invalid").
ValidateOutcomes(provider) ==
    IF ~cfg.providerFaults THEN {"valid"}
    ELSE IF RefreshSupported(provider)
      THEN {"valid", "refreshedInside", "refreshFailedInside", "invalid"}
    ELSE {"valid", "invalid"}

\* How the handler's own refresh block ends: refreshCredentials,
\* updateEmailAccount and initialize all work ("ok"), or one of them throws.
RefreshOutcomes ==
    IF cfg.providerFaults
      THEN {"ok", "refreshFails", "persistFails", "reinitFails"}
      ELSE {"ok"}

\* updateEmailAccount(account.id, { credentials: newCredentials })
PersistCredentials(acc) == [acc EXCEPT !.credentials = "c1"]

\* Variant of the credential-failure exit that requeues the message.
CredentialFailureRequeued(ev) ==
    NackOp(NextAttempt(ev), TRUE, ExceptionDelay(ev.retryCount + 1))

\* The queue call after 'Invalid credentials' / '... unable to refresh'.
CredentialFailureOp(ev) == AckOp(ev)

\* `await updateLogStatus(logId, 'FAILED', ...); return this.queueAdapter.ack(event)`
\* of the two credential-failure branches.
CredentialFailure(c, p, logFails) ==
    LogThen(c, p, "FAILED",
            [p EXCEPT !.pc = "queueOp", !.op = CredentialFailureOp(p.ev)], logFails)

\* Step 5 and the call of step 6: provider.initialize, validateCredentials,
\* the optional refresh, the 'Sending email' log update, provider.sendEmail.
Dispatch(c) ==
    /\ proc[c].pc = "dispatch"
    /\ \E throws \in ProviderFaults, v \in ValidateOutcomes(proc[c].acct.provider),
          r \in RefreshOutcomes, res \in cfg.sendResults, logFails \in LogFaults :
         LET p == proc[c]
             inside == IF v \in {"refreshedInside", "refreshFailedInside"} THEN 1 ELSE 0
             credentialsValid == v \in {"valid", "refreshedInside"}
             seen == [NoCred EXCEPT !.validations = 1, !.refreshes = inside,
                                    !.invalid = (v # "valid"),
                                    !.refreshed = (v = "refreshedInside")]
             send(q) == LogThen(c, q, "PROCESSING",
                                [q EXCEPT !.pc = "updateQuota", !.res = res], logFails)
         IN  IF throws
               THEN /\ Throw(c, p)
                    /\ account' = account
             ELSE IF credentialsValid
               THEN /\ send([p EXCEPT !.cred = seen])
                    /\ account' = account
             ELSE IF ~RefreshSupported(p.acct.provider)
               THEN /\ CredentialFailure(c, [p EXCEPT !.cred = seen], logFails)
                    /\ account' = account
             ELSE LET tried == [seen EXCEPT !.refreshes = @ + 1,
                                            !.refreshed = (r # "refreshFails"),
                                            !.persisted = (r \in {"ok", "reinitFails"})]
                  IN  /\ account' = IF tried.persisted /\ account.status # "NONE"
                                      THEN PersistCredentials(account) ELSE account
                      /\ IF r = "ok"
                           THEN send([p EXCEPT !.cred = tried])
                           ELSE CredentialFailure(c, [p EXCEPT !.cred = tried], logFails)
    /\ UNCHANGED <<cfg, usage, mainQ, delayQ, deadQ, nPublished, nDeliv, hist>>

\* Step 6 after updateQuotaUsage: the handling of the provider's result.
ResultStep(c, p, logFails) ==
    LET next == NextAttempt(p.ev)
    IN  IF p.res = "SUCCESS"
          THEN EndWithAck(c, p, "SENT", logFails)
        ELSE IF ShouldRetry(p.res) /\ RetryAllowed(p.ev)
          THEN LogThen(c, p, "REQUEUED",
                       [p EXCEPT !.pc = "queueOp",
                                 !.op = NackOp(next, TRUE, BackoffDelay(next.retryCount))],
                       logFails)
        ELSE EndWithAck(c, p, "FAILED", logFails)

\* updateQuotaUsage up to its write: getQuotaUsage (getAccount when the day has
\* no row) and the in-memory update; a store error is logged and swallowed,
\* and the handler goes on with the result.
UpdateQuota(c) ==
    /\ proc[c].pc = "updateQuota"
    /\ \E storeFails \in StoreFaults, logFails \in LogFaults :
         LET p == proc[c]
             success == p.res = "SUCCESS"
             fails == storeFails \/ ((~usage.present) /\ account.status = "NONE")
             base == IF usage.present THEN usage ELSE FreshUsage(account)
         IN  /\ hist' = [hist EXCEPT !.succ = IF success THEN @ + 1 ELSE @,
                                     !.failc = IF success THEN @ ELSE @ + 1]
             /\ IF fails
                  THEN ResultStep(c, p, logFails)
                  ELSE SetProc(c, [p EXCEPT !.pc = "uqSave", !.read = base,
                                            !.usage = RecordOutcome(base, success)])
    /\ UNCHANGED <<cfg, account, usage, mainQ, delayQ, deadQ, nPublished, nDeliv>>

\* updateQuotaUsage, its saveQuotaUsage; then the handling of the result.
UqSave(c) ==
    /\ proc[c].pc = "uqSave"
    /\ \E storeFails \in StoreFaults, logFails \in LogFaults :
         LET p == proc[c]
         IN  /\ usage' = IF storeFails THEN usage ELSE SaveQuotaUsage(usage, p.usage)
             /\ ResultStep(c, [p EXCEPT !.wrote = @ \/ ~storeFails], logFails)
    /\ UNCHANGED <<cfg, account, mainQ, delayQ, deadQ, nPublished, nDeliv, hist>>

\* Step 7, the catch block.
Catch(c) ==
    /\ proc[c].pc = "catch"
    /\ \E logFails \in LogFaults :
         LET p == proc[c]
             next == NextAttempt(p.ev)
         IN  IF logFails
               THEN SetProc(c, [p EXCEPT !.pc = "thrown"])
               ELSE SetProc(c, [p EXCEPT !.pc = "queueOp",
                                  !.log = UpdateLogStatus(p.log, "FAILED"),
                                  !.op = IF RetryAllowed(p.ev)
                                           THEN NackOp(next, TRUE, ExceptionDelay(next.retryCount))
                                           ELSE AckOp(p.ev)])
    /\ UNCHANGED <<cfg, account, usage, mainQ, delayQ, deadQ, nPublished, nDeliv, hist>>

\* ---------------------------------------------------------- queue adapters
DelayEntry(adapter, msg, delay) ==
    [msg |-> StripHandle(msg), delay |-> delay, hold |-> HoldMs(adapter, delay)]

\* RabbitMQAdapter.nack: the queues after it, as [main, delay, dead].
RabbitNack(ev, op) ==
    IF op.delay > 0
      THEN [main |-> mainQ, delay |-> delayQ \cup {DelayEntry("rabbitmq", op.msg, op.delay)},
            dead |-> deadQ]
    ELSE IF op.requeue
      THEN [main |-> mainQ \cup {StripHandle(ev)}, delay |-> delayQ, dead |-> deadQ]
    ELSE [main |-> mainQ, delay |-> delayQ, dead |-> deadQ \cup {StripHandle(ev)}]

\* SQSAdapter.nack
SqsNack(ev, op) ==
    IF op.requeue /\ op.delay # 0
      THEN [main |-> mainQ, delay |-> delayQ \cup {DelayEntry("sqs", op.msg, op.delay)},
            dead |-> deadQ]
    ELSE IF op.requeue
      THEN [main |-> mainQ \cup {StripHandle(ev)}, delay |-> delayQ, dead |-> deadQ]
    ELSE [main |-> mainQ, delay |-> delayQ, dead |-> deadQ]

AdapterNack(adapter, ev, op) ==
    IF adapter = "sqs" THEN SqsNack(ev, op) ELSE RabbitNack(ev, op)

\* Which budget a delayed nack belongs to: admission backpressure or failure.
RequeueClass(p) ==
    IF p.exc = "none" /\ p.qc # "allowed" /\ p.qc # "none" THEN "quota" ELSE "fail"

\* The handler's terminal `return this.queueAdapter.ack(...)` / `.nack(...)`.
QueueOp(c) ==
    /\ proc[c].pc = "queueOp"
    /\ LET p == proc[c]
           q == IF p.op.kind = "nack"
                  THEN AdapterNack(cfg.adapter, p.ev, p.op)
                  ELSE [main |-> mainQ, delay |-> delayQ, dead |-> deadQ]
       IN  /\ mainQ' = q.main
           /\ delayQ' = q.delay
           /\ deadQ' = q.dead
           /\ hist' = IF p.op.kind # "nack" THEN hist
                      ELSE IF RequeueClass(p) = "quota"
                        THEN [hist EXCEPT !.deferrals[p.ev.id] = Min(@ + 1, 2)]
                      ELSE [hist EXCEPT !.failRequeues[p.ev.id] = @ + 1]
           /\ SetProc(c, [p EXCEPT !.pc = "returned", !.settled = @ + 1])
    /\ UNCHANGED <<cfg, account, usage, nPublished, nDeliv>>

\* The subscription callback after the handler has returned: RabbitMQAdapter
\* calls channel.ack(msg) on the delivery, which the handler's own ack or nack
\* has settled already; the SQS poll loop goes on to the next message. The
\* idle consumer keeps in `settled` how many acknowledgment actions the broker
\* got for the delivery just handled, until the next delivery starts.
CallbackAcks(adapter) == IF adapter = "rabbitmq" THEN 1 ELSE 0

AdapterReturn(c) ==
    /\ proc[c].pc = "returned"
    /\ SetProc(c, [IdleProc EXCEPT !.settled = proc[c].settled + CallbackAcks(cfg.adapter)])
    /\ UNCHANGED <<cfg, account, usage, mainQ, delayQ, deadQ, nPublished, nDeliv, hist>>

\* The subscription callback when the handler has thrown: RabbitMQAdapter
\* nacks without requeue (dead-letter), SQSAdapter sets the visibility
\* timeout to 0 (deliverable again at once). When this recovery call itself
\* fails: SQSAdapter's outer catch logs it, the message stays in flight until
\* its visibility timeout and polling is re-scheduled; RabbitMQAdapter has no
\* catch around channel.nack, which throws only on a closed channel, so the
\* callback rejects, the broker requeues the unacknowledged message and
\* nothing re-opens the subscription.
AdapterCatch(c) ==
    /\ proc[c].pc = "thrown"
    /\ \E recoveryFails \in RecoveryFaults :
         LET p == proc[c]
         IN  IF p.settled > 0
               THEN /\ UNCHANGED <<mainQ, deadQ, delayQ>>
                    /\ SetProc(c, IdleProc)
             ELSE IF cfg.adapter = "sqs"
               THEN IF recoveryFails
                      THEN /\ delayQ' = delayQ \cup
                                {[msg |-> StripHandle(p.ev), delay |-> 0,
                                  hold |-> SqsVisibilityTimeoutMs]}
                           /\ UNCHANGED <<mainQ, deadQ>>
                           /\ SetProc(c, IdleProc)
                    ELSE /\ mainQ' = mainQ \cup {StripHandle(p.ev)}
                         /\ UNCHANGED <<deadQ, delayQ>>
                         /\ SetProc(c, IdleProc)
             ELSE IF recoveryFails
               THEN /\ mainQ' = mainQ \cup {StripHandle(p.ev)}
                    /\ UNCHANGED <<deadQ, delayQ>>
                    /\ SetProc(c, [IdleProc EXCEPT !.pc = "stopped"])
             ELSE /\ deadQ' = deadQ \cup {StripHandle(p.ev)}
                  /\ UNCHANGED <<mainQ, delayQ>>
                  /\ SetProc(c, IdleProc)
    /\ UNCHANGED <<cfg, account, usage, nPublished, nDeliv, hist>>

\* The broker moves a held message to the main queue once its hold is over.
DelayExpire ==
    /\ \E d \in delayQ :
         /\ delayQ' = delayQ \ {d}
         /\ mainQ' = mainQ \cup {d.msg}
    /\ UNCHANGED <<cfg, account, usage, deadQ, nPublished, nDeliv, proc, hist>>

Send ==
    /\ nPublished < Cardinality(PublishIds)
    /\ \E rcpt \in RcptKinds :
         mainQ' = mainQ \cup {SendEvent(nPublished + 1, rcpt)}
    /\ nPublished' = nPublished + 1
    /\ UNCHANGED <<cfg, account, usage, delayQ, deadQ, nDeliv, proc, hist>>

Next ==
    \/ Send
    \/ DelayExpire
    \/ \E c \in AllConsumers : Receive(c)
    \/ \E c \in AllConsumers : Validate(c)
    \/ \E c \in AllConsumers : Account(c)
    \/ \E c \in AllConsumers : CheckQuota(c)
    \/ \E c \in AllConsumers : CqSave(c)
    \/ \E c \in AllConsumers : Dispatch(c)
    \/ \E c \in AllConsumers : UpdateQuota(c)
    \/ \E c \in AllConsumers : UqSave(c)
    \/ \E c \in AllConsumers : Catch(c)
    \/ \E c \in AllConsumers : QueueOp(c)
    \/ \E c \in AllConsumers : AdapterReturn(c)
    \/ \E c \in AllConsumers : AdapterCatch(c)

Spec == Init /\ [][Next]_vars

\* PUT /accounts/:id: quotaSettings and status of the body are written as
\* they come, each only when present.
UpdateAccount ==
    /\ hist.updates < MaxAccountUpdates
    /\ account.status # "NONE"
    /\ \E status \in AccountStatuses \cup {"absent"},
          hasQuotaSettings \in BOOLEAN, quotaSettings \in ApiQuotaSettings :
         /\ status # "absent" \/ hasQuotaSettings
         /\ hasQuotaSettings \/ quotaSettings = CreatedQuotaSettings
         /\ account' = [account EXCEPT
                          !.status = IF status = "absent" THEN @ ELSE status,
                          !.quotaSettings = IF hasQuotaSettings THEN quotaSettings ELSE @]
    /\ hist' = [hist EXCEPT !.updates = @ + 1]
    /\ UNCHANGED <<cfg, usage, mainQ, delayQ, deadQ, nPublished, nDeliv, proc>>

\* The pipeline with the account API beside it; the log store answers, so
\* the handler never throws out of its catch block.
NextAdmin ==
    \/ UpdateAccount
    \/ Send
    \/ DelayExpire
    \/ \E c \in AllConsumers : Receive(c)
    \/ \E c \in AllConsumers : Validate(c)
    \/ \E c \in AllConsumers : Account(c)
    \/ \E c \in AllConsumers : CheckQuota(c)
    \/ \E c \in AllConsumers : CqSave(c)
    \/ \E c \in AllConsumers : Dispatch(c)
    \/ \E c \in AllConsumers : UpdateQuota(c)
    \/ \E c \in AllConsumers : UqSave(c)
    \/ \E c \in AllConsumers : Catch(c)
    \/ \E c \in AllConsumers : QueueOp(c)
    \/ \E c \in AllConsumers : AdapterReturn(c)

SpecAdmin == InitAdmin /\ [][NextAdmin]_vars

\* Quota settings over small ranges, and the defaults of POST /accounts.
Stages == 1..(MaxSetting + 1)

SettingsRange ==
    [dailyLimit : 0..MaxSetting, warmupStep : 0..MaxSetting,
     maxLimit : 0..MaxSetting, currentStage : Stages]
    \cup {[dailyLimit |-> 50, warmupStep |-> 10, maxLimit |-> 500, currentStage |-> 1]}

\* One consumer, answering stores, one request on the queue, and an account
\* of any status with any of these settings.
InitLimit ==
    /\ cfg \in [adapter : Adapters, consumers : {{"c1"}},
                sendResults : {{"SUCCESS", "TIMEOUT"}},
                storeFaults : {FALSE}, logFaults : {FALSE}, providerFaults : {FALSE},
                recoveryFaults : {FALSE}]
    /\ account \in [status : AccountStatuses, provider : {"SMTP"}, credentials : {"c0"},
                     quotaSettings : SettingsRange]
    /\ usage = NoUsage
    /\ mainQ = {SendEvent(1, "ok")}
    /\ InitCommon

NextLimit ==
    \/ DelayExpire
    \/ \E c \in AllConsumers : Receive(c)
    \/ \E c \in AllConsumers : Validate(c)
    \/ \E c \in AllConsumers : Account(c)
    \/ \E c \in AllConsumers : CheckQuota(c)
    \/ \E c \in AllConsumers : CqSave(c)
    \/ \E c \in AllConsumers : Dispatch(c)
    \/ \E c \in AllConsumers : UpdateQuota(c)
    \/ \E c \in AllConsumers : UqSave(c)
    \/ \E c \in AllConsumers : QueueOp(c)
    \/ \E c \in AllConsumers : AdapterReturn(c)

SpecLimit == InitLimit /\ [][NextLimit]_vars

\* The queue adapter under any handler: QueueAdapter.subscribe takes an
\* arbitrary handler, which may acknowledge, reject with or without requeue
\* and with or without a delay, or throw. One consumer, two fresh messages,
\* and the adapter's recovery call may fail.
ClientDelays == {0, ExceptionDelayMs, QuotaDelayMs}

InitAdapter ==
    /\ cfg \in [adapter : Adapters, consumers : {{"c1"}},
                sendResults : {{"SUCCESS"}},
                storeFaults : {FALSE}, logFaults : {FALSE}, providerFaults : {FALSE},
                recoveryFaults : {TRUE}]
    /\ account \in { a \in InitAccounts : a.status = "NONE" }
    /\ usage = NoUsage
    /\ mainQ = { SendEvent(i, "ok") : i \in BacklogIds }
    /\ InitCommon

\* The handler handed to subscribe, reduced to its effect on the adapter.
ClientDecide(c) ==
    /\ proc[c].pc = "validate"
    /\ LET p == proc[c]
       IN  \/ SetProc(c, [p EXCEPT !.pc = "thrown", !.exc = "error"])
           \/ SetProc(c, [p EXCEPT !.pc = "queueOp", !.op = AckOp(p.ev)])
           \/ \E ev \in {p.ev, NextAttempt(p.ev)}, requeue \in BOOLEAN,
                  delay \in ClientDelays :
                SetProc(c, [p EXCEPT !.pc = "queueOp",
                                     !.op = NackOp(ev, requeue, delay)])
    /\ UNCHANGED <<cfg, account, usage, mainQ, delayQ, deadQ, nPublished, nDeliv, hist>>

NextAdapter ==
    \/ DelayExpire
    \/ \E c \in AllConsumers : Receive(c)
    \/ \E c \in AllConsumers : ClientDecide(c)
    \/ \E c \in AllConsumers : QueueOp(c)
    \/ \E c \in AllConsumers : AdapterReturn(c)
    \/ \E c \in AllConsumers : AdapterCatch(c)

SpecAdapter == InitAdapter /\ [][NextAdapter]_vars

\* ------------------------------------------------------------ warm-up stage
\* quota_usage rows of the earlier days of the window read by
\* getLastWeekUsage (kept in hist.week; the model has no day rollover).
DayRow(sent, remaining) ==
    [present |-> TRUE, sent |-> sent, failed |-> 0, remaining |-> remaining]

PastWeeks ==
    { <<>>, <<DayRow(4, 0)>>, <<DayRow(2, 1), DayRow(2, 0)>>, <<DayRow(1, 4)>> }

\* getLastWeekUsage: the rows of the window, today's first (ORDER BY date DESC).
GetLastWeekUsage == IF usage.present THEN <<usage>> \o hist.week ELSE hist.week

\* lastWeekUsage.reduce((sum, day) => sum + day.sent, 0)
RECURSIVE TotalSent(_)
TotalSent(rows) ==
    IF rows = <<>> THEN 0 ELSE Head(rows).sent + TotalSent(Tail(rows))

\* lastWeekUsage.reduce((sum, day) => sum + day.sent + day.remaining, 0)
RECURSIVE TotalQuota(_)
TotalQuota(rows) ==
    IF rows = <<>> THEN 0
    ELSE Head(rows).sent + Head(rows).remaining + TotalQuota(Tail(rows))

\* `totalSent > totalQuota * 0.8 && account.quotaSettings.currentStage < 10`
\* (the product by 0.8 is exact for the totals of the model, so the test is
\* taken in tenths).
ShouldAdvance(acc, rows) ==
    /\ TotalSent(rows) * 10 > TotalQuota(rows) * 8
    /\ acc.quotaSettings.currentStage < MaxStage

\* WarmupQuotaService.advanceWarmupStage, the weekly job.
AdvanceWarmupStage ==
    /\ hist.advances < MaxAdvances
    /\ account.status # "NONE"
    /\ account' = IF ShouldAdvance(account, GetLastWeekUsage)
                    THEN [account EXCEPT !.quotaSettings.currentStage = @ + 1]
                    ELSE account
    /\ hist' = [hist EXCEPT !.advances = @ + 1]
    /\ UNCHANGED <<cfg, usage, mainQ, delayQ, deadQ, nPublished, nDeliv, proc>>

\* OAuth callback for a user who already has an account (re-authorization):
\* email, credentials and status ACTIVE are written, quotaSettings are not.
Reauthorize ==
    /\ hist.updates < MaxAccountUpdates
    /\ account.status # "NONE"
    /\ account' = [account EXCEPT !.credentials = "c1", !.status = "ACTIVE"]
    /\ hist' = [hist EXCEPT !.updates = @ + 1]
    /\ UNCHANGED <<cfg, usage, mainQ, delayQ, deadQ, nPublished, nDeliv, proc>>

\* A Gmail account in warm-up, at the first stage or near the last,
\* with a week of usage behind it; one message to send; the provider may
\* find the credentials invalid.
InitWarmup ==
    /\ cfg \in [adapter : {"sqs"}, consumers : {{"c1"}},
                sendResults : {{"SUCCESS"}},
                storeFaults : {FALSE}, logFaults : {FALSE}, providerFaults : {TRUE},
                recoveryFaults : {FALSE}]
    /\ account \in { [status |-> st, provider |-> "GMAIL", credentials |-> "c0",
                       quotaSettings |-> [CreatedQuotaSettings EXCEPT !.currentStage = stage]] :
                        st \in {"WARMING_UP"},
                        stage \in {1, MaxStage - 1, MaxStage} }
    /\ usage \in {NoUsage, FreshUsage(account)}
    /\ mainQ = {SendEvent(1, "ok")}
    /\ delayQ = {}
    /\ deadQ = {}
    /\ nPublished = Cardinality(PublishIds)
    /\ nDeliv = 0
    /\ proc = [c \in AllConsumers |-> IdleProc]
    /\ \E w \in PastWeeks : hist = [InitHist(usage, mainQ) EXCEPT !.week = w]

NextWarmup ==
    \/ AdvanceWarmupStage
    \/ UpdateAccount
    \/ Reauthorize
    \/ DelayExpire
    \/ \E c \in AllConsumers : Receive(c)
    \/ \E c \in AllConsumers : Validate(c)
    \/ \E c \in AllConsumers : Account(c)
    \/ \E c \in AllConsumers : CheckQuota(c)
    \/ \E c \in AllConsumers : CqSave(c)
    \/ \E c \in AllConsumers : Dispatch(c)
    \/ \E c \in AllConsumers : UpdateQuota(c)
    \/ \E c \in AllConsumers : UqSave(c)
    \/ \E c \in AllConsumers : Catch(c)
    \/ \E c \in AllConsumers : QueueOp(c)
    \/ \E c \in AllConsumers : AdapterReturn(c)

SpecWarmup == InitWarmup /\ [][NextWarmup]_vars

\* ------------------------------------------------- delayed nack, stepwise
\* The two broker calls of a delayed nack taken one at a time, on a consumer
\* process that can die between any two steps of an invocation.

\* Whether the adapter takes its delay branch for the queue call `op`.
DelayedNack(adapter, op) ==
    /\ op.kind = "nack"
    /\ IF adapter = "sqs" THEN op.requeue /\ op.delay # 0 ELSE op.delay > 0

\* Variant of the delay branch that removes the original first.
RemoveThenPublish == <<"remove", "publish">>

\* The delay branch of nack: SendMessage with DelaySeconds, then DeleteMessage
\* (SQS); channel.publish to the delay queue, then channel.ack (RabbitMQ).
NackOrder == <<"publish", "remove">>

\* The effect of one broker call of the delay branch on the delay path and on
\* the number of acknowledgment actions of the delivery.
NackCall(call, p) ==
    IF call = "publish"
      THEN [delay |-> delayQ \cup {DelayEntry(cfg.adapter, p.op.msg, p.op.delay)},
            settled |-> p.settled]
      ELSE [delay |-> delayQ, settled |-> p.settled + 1]

\* The requeue counters after a delayed nack.
CountRequeue(p) ==
    IF RequeueClass(p) = "quota"
      THEN [hist EXCEPT !.deferrals[p.ev.id] = Min(@ + 1, 2)]
      ELSE [hist EXCEPT !.failRequeues[p.ev.id] = @ + 1]

\* An SQS call is awaited and can reject: the handler's promise rejects and
\* pollQueue's catch takes over. The RabbitMQ channel calls do not report.
NackCallFaults == IF cfg.adapter = "sqs" THEN RecoveryFaults ELSE {FALSE}

\* First broker call of the delay branch.
NackFirst(c) ==
    /\ proc[c].pc = "queueOp"
    /\ DelayedNack(cfg.adapter, proc[c].op)
    /\ \E callFails \in NackCallFaults :
         LET p == proc[c]
             r == NackCall(NackOrder[1], p)
         IN  IF callFails
               THEN /\ delayQ' = delayQ
                    /\ SetProc(c, [p EXCEPT !.pc = "thrown"])
               ELSE /\ delayQ' = r.delay
                    /\ SetProc(c, [p EXCEPT !.pc = "nackSecond", !.settled = r.settled])
    /\ UNCHANGED <<cfg, account, usage, mainQ, deadQ, nPublished, nDeliv, hist>>

\* Second broker call of the delay branch; nack returns.
NackSecond(c) ==
    /\ proc[c].pc = "nackSecond"
    /\ \E callFails \in NackCallFaults :
         LET p == proc[c]
             r == NackCall(NackOrder[2], p)
         IN  IF callFails
               THEN /\ delayQ' = delayQ
                    /\ hist' = hist
                    /\ SetProc(c, [p EXCEPT !.pc = "thrown"])
               ELSE /\ delayQ' = r.delay
                    /\ hist' = CountRequeue(p)
                    /\ SetProc(c, [p EXCEPT !.pc = "returned", !.settled = r.settled])
    /\ UNCHANGED <<cfg, account, usage, mainQ, deadQ, nPublished, nDeliv>>

\* ack, and nack outside the delay branch: one broker call.
QueueOpDirect(c) ==
    /\ ~DelayedNack(cfg.adapter, proc[c].op)
    /\ QueueOp(c)

\* The consumer process dies during an invocation and is started again. A
\* delivery it had not acknowledged is delivered again by the broker (the
\* RabbitMQ consumer is not in noAck mode; the SQS visibility timeout runs out).
Crash(c) ==
    /\ proc[c].pc \notin {"idle", "stopped"}
    /\ mainQ' = IF proc[c].settled = 0 THEN mainQ \cup {StripHandle(proc[c].ev)} ELSE mainQ
    /\ SetProc(c, IdleProc)
    /\ UNCHANGED <<cfg, account, usage, delayQ, deadQ, nPublished, nDeliv, hist>>

\* One consumer on either adapter; provider errors, log store errors and
\* exhausted quota rows lead to delayed nacks; SQS calls can fail.
InitNack ==
    /\ cfg \in [adapter : Adapters, consumers : {{"c1"}},
                sendResults : {{"SUCCESS", "TIMEOUT"}},
                storeFaults : {FALSE}, logFaults : {TRUE}, providerFaults : {FALSE},
                recoveryFaults : {TRUE}]
    /\ account \in { a \in InitAccounts : a.status = "ACTIVE" }
    /\ usage \in InitUsages(account)
    /\ mainQ \in {{}} \cup { {m} : m \in BacklogMsgs({101}) }
    /\ InitCommon

NextNack ==
    \/ Send
    \/ DelayExpire
    \/ \E c \in AllConsumers : Receive(c)
    \/ \E c \in AllConsumers : Validate(c)
    \/ \E c \in AllConsumers : Account(c)
    \/ \E c \in AllConsumers : CheckQuota(c)
    \/ \E c \in AllConsumers : CqSave(c)
    \/ \E c \in AllConsumers : Dispatch(c)
    \/ \E c \in AllConsumers : UpdateQuota(c)
    \/ \E c \in AllConsumers : UqSave(c)
    \/ \E c \in AllConsumers : Catch(c)
    \/ \E c \in AllConsumers : QueueOpDirect(c)
    \/ \E c \in AllConsumers : NackFirst(c)
    \/ \E c \in AllConsumers : NackSecond(c)
    \/ \E c \in AllConsumers : AdapterReturn(c)
    \/ \E c \in AllConsumers : AdapterCatch(c)
    \/ \E c \in AllConsumers : Crash(c)

SpecNack == InitNack /\ [][NextNack]_vars

\* ------------------------------------------------------- SQS poll loop
\* SQSAdapter.subscribe's pollQueue and SQSAdapter.close. A consumer in pc
\* "idle" has its ReceiveMessage call in flight, in pc "timer" the next
\* pollQueue is scheduled with setTimeout, in pc "closed" the timer was
\* cleared. hist.closedAt is the number of deliveries made when close()
\* returned (-1 before). A response is handled one message at a time; the
\* model takes responses of one message.

\* ReceiveMessage returns no message: pollQueue schedules the next poll.
PollEmpty(c) ==
    /\ c \in cfg.consumers
    /\ proc[c].pc = "idle"
    /\ mainQ = {}
    /\ SetProc(c, [IdleProc EXCEPT !.pc = "timer"])
    /\ UNCHANGED <<cfg, account, usage, mainQ, delayQ, deadQ, nPublished, nDeliv, hist>>

\* The handler call of pollQueue has ended: when it threw, and the handler had
\* not settled the message, its visibility timeout is set to 0; then
\* `this.pollingInterval = setTimeout(pollQueue, 1000)`.
PollHandled(c) ==
    /\ proc[c].pc \in {"returned", "thrown"}
    /\ mainQ' = IF proc[c].pc = "thrown" /\ proc[c].settled = 0
                  THEN mainQ \cup {StripHandle(proc[c].ev)}
                  ELSE mainQ
    /\ SetProc(c, [IdleProc EXCEPT !.pc = "timer"])
    /\ UNCHANGED <<cfg, account, usage, delayQ, deadQ, nPublished, nDeliv, hist>>

\* The timer fires: pollQueue runs and sends ReceiveMessage.
TimerFires(c) ==
    /\ proc[c].pc = "timer"
    /\ SetProc(c, IdleProc)
    /\ UNCHANGED <<cfg, account, usage, mainQ, delayQ, deadQ, nPublished, nDeliv, hist>>

\* SQSAdapter.close: clearTimeout(this.pollingInterval), which cancels a
\* pending timer and does nothing to a poll that is under way.
Close ==
    /\ hist.closedAt < 0
    /\ proc' = [c \in AllConsumers |->
                  IF proc[c].pc = "timer" THEN [proc[c] EXCEPT !.pc = "closed"]
                  ELSE proc[c]]
    /\ hist' = [hist EXCEPT !.closedAt = nDeliv]
    /\ UNCHANGED <<cfg, account, usage, mainQ, delayQ, deadQ, nPublished, nDeliv>>

\* One SQS consumer polling a queue of two messages; the process is told to
\* shut down at any moment.
InitPoll ==
    /\ cfg \in [adapter : {"sqs"}, consumers : {{"c1"}},
                sendResults : {{"SUCCESS"}},
                storeFaults : {FALSE}, logFaults : {FALSE}, providerFaults : {FALSE},
                recoveryFaults : {FALSE}]
    /\ account \in { a \in InitAccounts : a.status = "NONE" }
    /\ usage = NoUsage
    /\ mainQ = { SendEvent(i, "ok") : i \in BacklogIds }
    /\ InitCommon

NextPoll ==
    \/ DelayExpire
    \/ Close
    \/ \E c \in AllConsumers : Receive(c)
    \/ \E c \in AllConsumers : ClientDecide(c)
    \/ \E c \in AllConsumers : QueueOp(c)
    \/ \E c \in AllConsumers : PollEmpty(c)
    \/ \E c \in AllConsumers : PollHandled(c)
    \/ \E c \in AllConsumers : TimerFires(c)

SpecPoll == InitPoll /\ [][NextPoll]_vars

\* ------------------------------------------------------------- fair runs
\* One consumer whose log store may or may not be subject to errors; the day
\* has no exhausted row, so no message is deferred for quota.
InitLive ==
    /\ cfg \in [adapter : Adapters, consumers : {{"c1"}},
                sendResults : {{"SUCCESS", "TIMEOUT"}},
                storeFaults : {FALSE}, logFaults : BOOLEAN, providerFaults : {FALSE},
                recoveryFaults : {FALSE}]
    /\ account \in { a \in InitAccounts : a.status \in {"ACTIVE", "INACTIVE"} }
    /\ usage = NoUsage
    /\ mainQ \in {{}} \cup { {m} : m \in BacklogMsgs({101}) }
    /\ InitCommon

\* The continuation of an invocation after each await, and the subscription
\* callback around it: the event loop runs it once its promise has settled.
HandlerStep(c) ==
    \/ Validate(c)
    \/ Account(c)
    \/ CheckQuota(c)
    \/ CqSave(c)
    \/ Dispatch(c)
    \/ UpdateQuota(c)
    \/ UqSave(c)
    \/ Catch(c)
    \/ QueueOp(c)
    \/ AdapterReturn(c)
    \/ AdapterCatch(c)

\* The broker delivers a queued message to a subscribed consumer that is free
\* and moves a held message to the queue when its hold is over; a started
\* invocation runs on.
Fairness ==
    /\ WF_vars(DelayExpire)
    /\ \A c \in AllConsumers : WF_vars(Receive(c)) /\ WF_vars(HandlerStep(c))

SpecLive == InitLive /\ [][Next]_vars /\ Fairness

\* -------------------------------------------------------------- properties
\* The invocation has taken its decision (last log update written, queue call
\* chosen or made) without entering the catch block.
Decided(p) == p.pc \in {"queueOp", "returned"} /\ p.exc = "none"

\* The messages held on the delay path.
Held == { d.msg : d \in delayQ }

\* A copy of the SendRequest `id` is on the queue or on the delay path.
Queued(id) == \E m \in mainQ \cup Held : m.id = id

\* The call nack(msg, true, delay) of consumer c has put `msg` on the delay
\* path with that delay, from where the broker may have moved it to the queue
\* (where, with several consumers, another one may have taken it).
Republished(c, msg, delay) ==
    (cfg.consumers = {c}) =>
        \/ \E d \in delayQ : d.msg = msg /\ d.delay = delay
        \/ msg \in mainQ

\* The day's counters as the store has them (no row: nothing counted).
StoredSent == IF usage.present THEN usage.sent ELSE 0
StoredFailed == IF usage.present THEN usage.failed ELSE 0

\* The statuses of a log row in the order written, repeats of one status merged.
RECURSIVE Collapse(_)
Collapse(trail) ==
    IF Len(trail) <= 1 THEN trail
    ELSE IF trail[1] = trail[2] THEN Collapse(Tail(trail))
    ELSE <<trail[1]>> \o Collapse(Tail(trail))

\* C1: an invocation whose checkQuota result is not allowed sets the log row to
\* REQUEUED and issues nack(event, requeue = true, delay = 3,600,000 ms) for
\* the event with the retryCount it was delivered with; the counter of a
\* message is the number of its failure requeues however often quota deferred it.
C1_QuotaDeferral ==
    \A c \in AllConsumers :
        LET p == proc[c]
        IN  (Decided(p) /\ p.qc \in {"denied", "error"}) =>
              /\ p.log.status = "REQUEUED"
              /\ p.op.kind = "nack" /\ p.op.requeue /\ p.op.delay = 3600000
              /\ p.op.msg.id = p.ev.id
              /\ p.op.msg.retryCount = p.ev.retryCount
              /\ p.ev.retryCount = hist.failRequeues[p.ev.id]
              /\ (p.pc = "returned" => Republished(c, StripHandle(p.ev), 3600000))

\* The same message is deferred by quota for the second time in a row.
C1_Witness ==
    \E c \in AllConsumers :
        /\ Decided(proc[c]) /\ proc[c].pc = "returned"
        /\ proc[c].qc = "denied"
        /\ hist.deferrals[proc[c].ev.id] = 2

\* C2: after a temporary provider error the message is REQUEUED if and only if
\* its retryCount is below 3; delivered with retryCount 3 its log is FAILED, it
\* is acked and no copy of it is published.
C2_RetryCap ==
    \A c \in AllConsumers :
        LET p == proc[c]
        IN  (Decided(p) /\ p.res \in TemporaryFailures) =>
              /\ (p.log.status = "REQUEUED" /\ p.op.kind = "nack" /\ p.op.requeue)
                    <=> (p.ev.retryCount < 3)
              /\ (p.ev.retryCount >= 3) =>
                    /\ p.log.status = "FAILED"
                    /\ p.op.kind = "ack"
                    /\ (p.pc = "returned" => ~Queued(p.ev.id))

\* A message delivered with retryCount 3 met a temporary provider error.
C2_Witness ==
    \E c \in AllConsumers :
        /\ Decided(proc[c]) /\ proc[c].pc = "returned"
        /\ proc[c].res \in TemporaryFailures
        /\ proc[c].ev.retryCount = 3
        /\ proc[c].log.status = "FAILED"

\* C3: every SendRequest on the queue or the delay path has retryCount in 0..3,
\* equal to the number of failure-class requeues it went through (provider
\* failures and exceptions alike), each of which raised it by exactly 1; no
\* SendRequest is re-published for a failure more than 3 times.
C3_RetryBudget ==
    /\ \A m \in mainQ \cup Held :
          /\ m.retryCount \in 0..3
          /\ m.retryCount = hist.failRequeues[m.id]
    /\ \A i \in MsgIds : hist.failRequeues[i] <= 3
    /\ \A c \in AllConsumers :
          LET p == proc[c]
          IN  /\ (p.pc \notin {"idle", "returned"}) =>
                    p.ev.retryCount = hist.failRequeues[p.ev.id]
              /\ (p.op.kind = "nack") =>
                    /\ p.op.msg.retryCount \in 0..3
                    /\ p.op.msg.retryCount =
                         p.ev.retryCount + (IF RequeueClass(p) = "fail" THEN 1 ELSE 0)

\* A message requeued for a failure twice here holds the whole budget.
C3_Witness ==
    /\ nDeliv >= 2
    /\ \E d \in delayQ : d.msg.retryCount = 3 /\ hist.failRequeues[d.msg.id] = 3

\* C4: a temporary provider error on a message delivered with retryCount r in
\* {0, 1, 2} re-publishes it with retryCount r + 1 and the requested delay
\* 2^(r+1) * 60,000 ms, whatever else the state holds.
C4_Backoff ==
    \A c \in AllConsumers :
        LET p == proc[c]
            r == p.ev.retryCount
            delay == CASE r = 0 -> 120000 [] r = 1 -> 240000 [] r = 2 -> 480000
        IN  (Decided(p) /\ p.res \in TemporaryFailures /\ r \in {0, 1, 2}) =>
              /\ p.op.kind = "nack" /\ p.op.requeue
              /\ p.op.msg.id = p.ev.id
              /\ p.op.msg.retryCount = r + 1
              /\ p.op.delay = delay
              /\ (p.pc = "returned" =>
                    Republished(c, [StripHandle(p.ev) EXCEPT !.retryCount = r + 1], delay))

\* TIMEOUT on a first delivery: delay 120,000 ms, retryCount 1.
C4_Witness ==
    \E c \in AllConsumers :
        /\ Decided(proc[c]) /\ proc[c].pc = "returned"
        /\ proc[c].res = "TIMEOUT"
        /\ proc[c].ev.retryCount = 0
        /\ proc[c].op.delay = 120000
        /\ proc[c].op.msg.retryCount = 1

\* C5: the handling of a message with a disposable recipient never looks the
\* account up, checks or writes the quota row, or calls the provider; when it
\* decides, the log is REJECTED and the message is acked.
C5_Disposable ==
    \A c \in AllConsumers :
        LET p == proc[c]
        IN  (p.ev.rcpt = "disposable") =>
              /\ p.pc \in {"validate", "queueOp", "returned", "catch", "thrown"}
              /\ p.acct = NoAccountSnapshot
              /\ p.qc = "none"
              /\ p.usage = NoUsage /\ p.read = NoUsage /\ ~p.wrote
              /\ p.res = "none"
              /\ Decided(p) => (p.log.status = "REJECTED" /\ p.op.kind = "ack")

\* A disposable recipient is rejected on an ACTIVE account whose quota is used up.
C5_Witness ==
    \E c \in AllConsumers :
        /\ Decided(proc[c]) /\ proc[c].pc = "returned"
        /\ proc[c].ev.rcpt = "disposable"
        /\ proc[c].log.status = "REJECTED"
        /\ account.status = "ACTIVE"
        /\ usage.present /\ usage.remaining = 0

\* C6: a message whose recipient has an invalid format or an unreachable
\* domain is REJECTED and acked, and is never dispatched to a provider.
C6_UnreachableRejected ==
    \A c \in AllConsumers :
        LET p == proc[c]
        IN  (p.ev.rcpt \in {"badformat", "nomx"}) =>
              /\ p.pc \notin {"updateQuota", "uqSave"}
              /\ p.res = "none"
              /\ Decided(p) => (p.log.status = "REJECTED" /\ p.op.kind = "ack")

\* C7: a request sent through the API to an ACTIVE account with remaining = 1,
\* a valid recipient and a succeeding provider has the statuses QUEUED,
\* PROCESSING, SENT recorded in this order, leaves remaining at 0 and is acked.
C7_LogSequence ==
    \A c \in AllConsumers :
        LET p == proc[c]
        IN  (/\ Decided(p) /\ p.pc = "returned"
             /\ p.ev.id \in PublishIds /\ p.ev.retryCount = 0
             /\ account.status = "ACTIVE"
             /\ p.toKind = "ok"
             /\ p.read.present /\ p.read.remaining = 1
             /\ p.res = "SUCCESS") =>
              /\ Collapse(p.log.trail) = <<"QUEUED", "PROCESSING", "SENT">>
              /\ usage.remaining = 0
              /\ p.op.kind = "ack"

\* C8: with one consumer, whenever the handler has decided or is idle the
\* day's sent count equals the number of provider successes so far: +1 for each
\* success, nothing for a failure, also when the quota store failed meanwhile.
C8_SentOncePerSuccess ==
    (cfg.consumers = {"c1"}) =>
        \A c \in cfg.consumers :
            (proc[c].pc \in {"idle", "queueOp", "returned"}) => StoredSent = hist.succ

\* C9: with two consumers and an answering store, once all handlers have
\* finished sent is the number of successful dispatches, failed the number of
\* failed ones and remaining is max(0, allowance - sent).
C9_NoLostUpdate ==
    (/\ Cardinality(cfg.consumers) >= 2
     /\ \A c \in AllConsumers : proc[c].pc = "idle") =>
        /\ StoredSent = hist.succ
        /\ StoredFailed = hist.failc
        /\ usage.present =>
              usage.remaining = Max(0, CalculateDailyLimit(account) - usage.sent)

\* C10: the row updateQuotaUsage is about to save, against the row it read: a
\* success lowers remaining by 1, or leaves it at 0, and adds 1 to sent; a
\* failure adds 1 to failed and keeps remaining and sent, in the call and, with
\* one consumer, in the store afterwards.
C10_RecordOutcome ==
    \A c \in AllConsumers :
        LET p == proc[c]
        IN  /\ (p.pc = "uqSave") =>
                  IF p.res = "SUCCESS"
                    THEN /\ p.usage.remaining =
                               (IF p.read.remaining > 0 THEN p.read.remaining - 1 ELSE 0)
                         /\ p.usage.remaining >= 0
                         /\ p.usage.sent = p.read.sent + 1
                         /\ p.usage.failed = p.read.failed
                    ELSE /\ p.usage.failed = p.read.failed + 1
                         /\ p.usage.remaining = p.read.remaining
                         /\ p.usage.sent = p.read.sent
            /\ (/\ cfg.consumers = {"c1"} /\ Decided(p)
                 /\ p.read.present /\ p.res # "SUCCESS") =>
                  /\ usage.remaining = p.read.remaining
                  /\ usage.sent = p.read.sent

\* A success is recorded on a row whose remaining is already 0.
C10_Witness ==
    \E c \in AllConsumers :
        /\ proc[c].pc = "uqSave"
        /\ proc[c].res = "SUCCESS"
        /\ proc[c].read.present /\ proc[c].read.remaining = 0
        /\ proc[c].usage.remaining = 0

\* C11: every QuotaUsage row, stored or about to be saved by a handler, has
\* remaining >= 0, whatever quota settings the account API has written.
C11_RemainingNonNegative ==
    /\ usage.present => usage.remaining >= 0
    /\ \A c \in AllConsumers : proc[c].usage.present => proc[c].usage.remaining >= 0

\* C12: when a quota-store call of checkQuota fails, checkQuota returns
\* allowed = false with the reason 'Error checking quota', the provider is not
\* called in that invocation, and the message is deferred as for a quota
\* denial: REQUEUED, nack(event, true, 3,600,000) with the delivered retryCount.
C12_FailClosed ==
    /\ CheckQuotaResult("error") = [allowed |-> FALSE, reason |-> "Error checking quota"]
    /\ \A c \in AllConsumers :
        LET p == proc[c]
        IN  (p.qc = "error") =>
              /\ p.pc \in {"queueOp", "returned"}
              /\ p.res = "none"
              /\ p.log.status = "REQUEUED"
              /\ p.op = NackOp(p.ev, TRUE, 3600000)
              /\ (p.pc = "returned" => Republished(c, StripHandle(p.ev), 3600000))

\* The save of the day's new row failed inside checkQuota.
C12_Witness ==
    \E c \in AllConsumers :
        /\ proc[c].pc = "returned"
        /\ proc[c].qc = "error"
        /\ proc[c].usage.present /\ ~proc[c].wrote
        /\ ~usage.present

\* C13: for an ACTIVE account checkQuota allows exactly when the day's
\* remaining is above 0, and the allowance in force for the day (sent plus
\* remaining of the day's row) is the account's maxLimit, also when the account
\* was made ACTIVE after the row had been created.
C13_ActiveAllowance ==
    /\ \A c \in AllConsumers :
        LET p == proc[c]
        IN  /\ (p.pc = "dispatch") => (p.qc = "allowed" /\ p.usage.remaining > 0)
            /\ (p.qc = "denied") => p.usage.remaining <= 0
    /\ (/\ account.status = "ACTIVE"
        /\ account.quotaSettings = CreatedQuotaSettings
        /\ usage.present) =>
          usage.sent + usage.remaining = account.quotaSettings.maxLimit

\* The allowance the warm-up formula gives at `stage`, other settings as `qs`.
WarmupAllowance(qs, stage) ==
    LET grown == qs.dailyLimit + qs.warmupStep * (stage - 1)
    IN  IF grown <= qs.maxLimit THEN grown ELSE qs.maxLimit

C15_RowCreatedOnce ==
    [][ /\ CalculateDailyLimit(
             [status |-> "WARMING_UP", provider |-> "SMTP", credentials |-> "c0",
              quotaSettings |-> [dailyLimit |-> 50, warmupStep |-> 10,
                                 maxLimit |-> 500, currentStage |-> 1]]) = 50
        /\ \A c \in AllConsumers :
            (proc[c].pc = "cqSave" /\ proc'[c].pc # "cqSave") =>
                IF usage.present
                  THEN usage' = usage
                  ELSE usage' \in {usage,
                                   [present |-> TRUE, sent |-> 0, failed |-> 0,
                                    remaining |-> CalculateDailyLimit(account)]}
      ]_vars

\* C16: on both adapters, when the handler throws out of the subscription
\* callback and no ack or nack was issued for the delivery, the message is
\* dead-lettered and is not put back on the main queue.
C16_ThrownDeadLettered ==
    [][\A c \in AllConsumers :
         (proc[c].pc = "thrown" /\ proc[c].settled = 0 /\ proc'[c].pc # "thrown")
           => /\ StripHandle(proc[c].ev) \in deadQ'
              /\ StripHandle(proc[c].ev) \notin mainQ']_vars

\* C17: on both adapters, nack without requeue and without delay leaves the
\* message in the dead-letter destination, and nack with requeue and without
\* delay puts the same message back on the main queue at once.
C17_NackNoDelay ==
    \A c \in cfg.consumers :
      LET p == proc[c]
      IN  (p.pc = "returned" /\ p.op.kind = "nack" /\ p.op.delay = 0)
            => IF p.op.requeue
                 THEN StripHandle(p.ev) \in mainQ
                 ELSE /\ StripHandle(p.ev) \in deadQ
                      /\ StripHandle(p.ev) \notin mainQ

\* C18: a handler exception never stops consumption, also when the adapter's
\* recovery call for the message fails: no consumer is left unsubscribed
\* while the main queue still holds messages.
C18_ConsumptionGoesOn ==
    \A c \in cfg.consumers : proc[c].pc = "stopped" => mainQ = {}

\* C19: a message nacked with delay d is held back from the main queue for at
\* least d, clamped on the SQS adapter to its 15-minute maximum; this covers
\* the quota deferral and every backoff delay on both adapters.
C19_DelayHonoured ==
    \A d \in delayQ :
      d.hold >= (IF cfg.adapter = "sqs"
                   THEN Min(d.delay, SqsMaxDelaySeconds * 1000)
                   ELSE d.delay)

\* C20: the message a delayed nack re-publishes has the id and recipient
\* fields of the delivered message and no transport handle; its retryCount is
\* the delivered one plus 1 after a failure-class requeue and the delivered
\* one after a quota deferral.
C20_RepublishedCopy ==
    /\ \A d \in delayQ : DOMAIN d.msg = {"id", "rcpt", "retryCount"}
    /\ \A c \in cfg.consumers :
          LET p == proc[c]
              copy == [id |-> p.ev.id, rcpt |-> p.ev.rcpt,
                       retryCount |-> IF RequeueClass(p) = "quota"
                                        THEN p.ev.retryCount
                                        ELSE p.ev.retryCount + 1]
          IN  (p.pc = "returned" /\ p.op.kind = "nack" /\ p.op.delay > 0)
                => Republished(c, copy, p.op.delay)

\* A failed send of a message without toAddress was requeued: the copy on
\* the delay path still has no toAddress and counts one retry more.
C20_Witness ==
    \E c \in cfg.consumers, d \in delayQ :
        LET p == proc[c]
        IN  /\ p.pc = "returned" /\ p.op.kind = "nack" /\ p.exc = "none"
            /\ RequeueClass(p) = "fail"
            /\ p.ev.rcpt = "absent"
            /\ d.msg = [id |-> p.ev.id, rcpt |-> "absent",
                        retryCount |-> p.ev.retryCount + 1]

\* C21: in every handler invocation the log update that records the outcome
\* (REJECTED, REQUEUED, SENT or FAILED) is written before the handler calls
\* ack or nack: once the call is chosen or made, the row no longer shows the
\* earlier status, and the outcome is the last status written to it.
C21_LogBeforeQueueOp ==
    \A c \in AllConsumers :
        LET p == proc[c]
        IN  (p.pc \in {"queueOp", "returned"} /\ p.op.kind # "none") =>
              /\ p.log.status \in {"REJECTED", "REQUEUED", "SENT", "FAILED"}
              /\ p.log.trail[Len(p.log.trail)] = p.log.status
              /\ (p.res = "SUCCESS" /\ p.exc = "none") => p.log.status = "SENT"
              /\ (p.qc \in {"denied", "error"} /\ p.exc = "none") =>
                    p.log.status = "REQUEUED"

\* A quota-deferred message is on the delay path and its row shows REQUEUED.
C21_Witness ==
    \E c \in AllConsumers :
        LET p == proc[c]
        IN  /\ p.pc = "returned" /\ p.op.kind = "nack" /\ p.settled = 1
            /\ p.log.status = "REQUEUED"
            /\ \E d \in delayQ : d.msg.id = p.ev.id

\* C22: a failure of the log store during handling is swallowed and neither
\* changes nor blocks the delivery decision: every invocation ends with the
\* handler's own ack or nack, and a message whose explicit recipient fails
\* validation is acked, as it is when the log write succeeds.
C22_LogFailureSwallowed ==
    \A c \in AllConsumers :
        LET p == proc[c]
        IN  /\ p.pc # "thrown"
            /\ (p.pc \in {"queueOp", "returned"}
                  /\ p.ev.rcpt \in AddrKinds
                  /\ RejectsRecipient(ValidateEmail(p.ev.rcpt)))
                 => p.op.kind = "ack"

\* C23: an invocation that leaves its log row in SENT, FAILED or REJECTED ends
\* by acking the delivered message without re-publishing it, and an
\* invocation that re-publishes the message through a delayed nack leaves its
\* log row in REQUEUED.
C23_TerminalAckRequeueNack ==
    \A c \in AllConsumers :
        LET p == proc[c]
        IN  (p.pc \in {"queueOp", "returned"} /\ p.op.kind # "none") =>
              /\ (p.log.status \in {"SENT", "FAILED", "REJECTED"}) => p.op.kind = "ack"
              /\ (p.op.kind = "nack" /\ p.op.delay > 0) => p.log.status = "REQUEUED"

\* C24: updateLogStatus with status SENT leaves any existing row in SENT, and
\* applied again to that row leaves it in SENT: replaying the terminal update
\* gives the same status as applying it once.
C24_SentReplay ==
    \A c \in AllConsumers :
        LET row == proc[c].log
            once == UpdateLogStatus(row, "SENT")
            twice == UpdateLogStatus(once, "SENT")
        IN  (row.status # "NONE") =>
              /\ once.status = "SENT"
              /\ twice.status = once.status
              /\ (row.status = "SENT" => once.status = row.status)

\* A row that the handler has already set to SENT.
C24_Witness ==
    \E c \in AllConsumers :
        /\ proc[c].log.status = "SENT"
        /\ proc[c].pc = "returned"

\* C27: when the recipient cannot be resolved or a call of steps 1-6 throws,
\* the handler writes FAILED to the log and then re-publishes the message
\* with retryCount + 1 and delay 30000 * (retryCount + 1) if retryCount < 3,
\* and acks it otherwise; such an invocation never logs REJECTED.
C27_ExceptionPath ==
    \A c \in AllConsumers :
        LET p == proc[c]
            n == p.ev.retryCount
        IN  (p.pc \in {"queueOp", "returned"} /\ p.exc = "error") =>
              /\ p.log.status = "FAILED"
              /\ \A i \in 1..Len(p.log.trail) : p.log.trail[i] # "REJECTED"
              /\ IF n < 3
                   THEN /\ p.op.kind = "nack" /\ p.op.requeue
                        /\ p.op.msg.id = p.ev.id /\ p.op.msg.rcpt = p.ev.rcpt
                        /\ p.op.msg.retryCount = n + 1
                        /\ p.op.delay = 30000 * (n + 1)
                        /\ p.op.delay \in {30000, 60000, 90000}
                        /\ (p.pc = "returned" =>
                              Republished(c, [id |-> p.ev.id, rcpt |-> p.ev.rcpt,
                                              retryCount |-> n + 1], 30000 * (n + 1)))
                   ELSE /\ p.op.kind = "ack"
                        /\ (p.pc = "returned" /\ cfg.consumers = {c}) =>
                              \A m \in mainQ \cup Held : m.id # p.ev.id

\* The second delivery of a message without toAddress whose recipient cannot
\* be resolved: re-published with retryCount 2 and a delay of 60 s.
C27_Witness ==
    \E c \in AllConsumers :
        LET p == proc[c]
        IN  /\ p.pc = "returned" /\ p.exc = "error"
            /\ p.ev.rcpt = "absent" /\ p.ev.retryCount = 1
            /\ p.log.trail = <<"PROCESSING", "FAILED">>
            /\ p.op.kind = "nack" /\ p.op.delay = 60000

\* C28: when the credentials are invalid and a refresh succeeds, the new
\* credentials are persisted on the account and validateCredentials is
\* evaluated a second time before the dispatch, which happens only if that
\* validation succeeds; at most one refresh is attempted per delivery.
C28_RefreshThenRevalidate ==
    \A c \in AllConsumers :
        LET p == proc[c]
        IN  /\ p.cred.refreshes <= 1
            /\ (p.res # "none" /\ p.cred.refreshed) =>
                  /\ p.cred.persisted
                  /\ p.cred.validations = 2

\* C29: when the credentials are invalid and the provider has no refresh, or
\* the refresh or the saving of the refreshed credentials fails, the log is
\* set to FAILED and the message acked, whatever the retryCount: it is not
\* re-published, no retry is consumed, nothing is dispatched and QuotaUsage
\* stays as the quota check left it.
C29_CredentialFailure ==
    \A c \in AllConsumers :
        LET p == proc[c]
        IN  (Decided(p) /\ p.cred.invalid /\ p.res = "none") =>
              /\ p.cred.validations = 1
              /\ (~RefreshSupported(p.acct.provider)) => p.cred.refreshes = 0
              /\ p.log.status = "FAILED"
              /\ p.op = [kind |-> "ack", msg |-> p.ev, requeue |-> FALSE, delay |-> 0]
              /\ (cfg.consumers = {c}) =>
                    /\ usage = p.usage
                    /\ hist.failRequeues[p.ev.id] = p.ev.retryCount
                    /\ (p.pc = "returned" => ~Queued(p.ev.id))

\* An SMTP account (no refresh) with invalid credentials and a message that
\* still had its whole retry budget: acked, gone from the queues.
C29_Witness ==
    \E c \in AllConsumers :
        LET p == proc[c]
        IN  /\ p.pc = "returned" /\ Decided(p)
            /\ p.cred.invalid /\ p.res = "none"
            /\ p.acct.provider = "SMTP"
            /\ p.ev.retryCount = 0
            /\ p.log.status = "FAILED"
            /\ ~Queued(p.ev.id)

\* C30: a provider failure is requeued only for RATE_LIMIT_EXCEEDED,
\* TEMPORARY_ERROR, CONNECTION_ERROR, TIMEOUT and SERVER_ERROR; for any other
\* code or a failure without code the log is set to FAILED and the message
\* acked at once for every retryCount, after the failure has been counted in
\* the day's failed count.
C30_PermanentFailure ==
    \A c \in AllConsumers :
        LET p == proc[c]
            temporary == p.res \in {"RATE_LIMIT_EXCEEDED", "TEMPORARY_ERROR",
                                    "CONNECTION_ERROR", "TIMEOUT", "SERVER_ERROR"}
        IN  (Decided(p) /\ p.res \notin {"none", "SUCCESS"}) =>
              /\ (p.op.kind = "nack") => temporary
              /\ (~temporary) =>
                    /\ p.log.status = "FAILED"
                    /\ p.op = [kind |-> "ack", msg |-> p.ev, requeue |-> FALSE, delay |-> 0]
                    /\ (cfg.consumers = {c}) => StoredFailed = hist.failc

\* C25: advanceWarmupStage raises currentStage by exactly 1 when the sent
\* total of the window is at least 80% of its (sent + remaining) total and
\* currentStage is below the maximum stage, and leaves the account unchanged
\* otherwise; sent at exactly 80% advances.
C25_AdvanceAtEightyPercent ==
    [][(hist'.advances = hist.advances + 1) =>
         LET rows == GetLastWeekUsage
             due == /\ TotalSent(rows) * 10 >= TotalQuota(rows) * 8
                    /\ account.quotaSettings.currentStage < 10
         IN  IF due
               THEN account' = [account EXCEPT !.quotaSettings.currentStage = @ + 1]
               ELSE account' = account]_vars

\* C26: currentStage of an account never decreases and never exceeds the
\* maximum stage, whatever operation is applied to the account (warm-up
\* advancement, credential refresh, update through the API, re-authorization).
C26_StageMonotonic ==
    [][(account.status # "NONE" /\ account'.status # "NONE") =>
         /\ account'.quotaSettings.currentStage >= account.quotaSettings.currentStage
         /\ account'.quotaSettings.currentStage <= 10]_vars

\* C31: a message that comes to the account lookup and finds no account, or
\* an INACTIVE one, is REJECTED and acked with no quota check, no QuotaUsage
\* row created, no credential call and no provider dispatch, and is not
\* re-published.
C31_NoAccountRejected ==
    \A c \in AllConsumers :
        LET p == proc[c]
        IN  (Decided(p) /\ account.status \in {"NONE", "INACTIVE"}
               /\ p.toKind # "none" /\ ~RejectsRecipient(ValidateEmail(p.toKind))) =>
              /\ p.log.status = "REJECTED"
              /\ p.op = [kind |-> "ack", msg |-> p.ev, requeue |-> FALSE, delay |-> 0]
              /\ p.qc = "none" /\ ~p.wrote /\ ~usage.present
              /\ p.cred.validations = 0 /\ p.cred.refreshes = 0
              /\ p.res = "none"
              /\ (p.pc = "returned" /\ cfg.consumers = {c}) => ~Queued(p.ev.id)

\* A message with a good address for a user whose account is INACTIVE:
\* rejected, acked and gone.
C31_Witness ==
    \E c \in AllConsumers :
        LET p == proc[c]
        IN  /\ p.pc = "returned" /\ Decided(p)
            /\ account.status = "INACTIVE"
            /\ p.toKind = "ok"
            /\ p.log.status = "REJECTED"
            /\ ~Queued(p.ev.id)

\* C32: QuotaUsage is mutated once per terminal outcome: when the only
\* SendRequest of an account without earlier usage ends SENT or FAILED after
\* a dispatch, sent + failed of the account has grown by exactly 1, however
\* often the request was requeued on temporary provider errors before.
C32_OneMutationPerOutcome ==
    \A c \in AllConsumers :
        LET p == proc[c]
        IN  (Decided(p) /\ p.res # "none" /\ p.log.status \in {"SENT", "FAILED"}) =>
              StoredSent + StoredFailed = 1

\* C33: every delivery gets exactly one acknowledgment action from the
\* consumer side: once the handler has issued its terminal ack or nack, the
\* subscription callback issues no second one, so no delivery is ever
\* acknowledged more than once.
C33_OneAcknowledgment ==
    \A c \in AllConsumers : proc[c].settled <= 1

\* C34: the provider dispatches of a day that returned success never
\* outnumber the allowance the day's quota_usage row was created with, also
\* when two consumers handle messages of the account at the same time. Stated
\* for runs whose stores answer every call.
C34_SuccessesWithinAllowance ==
    (~cfg.storeFaults) => hist.succ <= CalculateDailyLimit(account)

\* C35: once provider.sendEmail has returned success for a delivery, the
\* invocation never requeues or re-publishes the message, also when the log
\* update that follows fails: its queue operation is an ack.
C35_NoRequeueAfterSuccess ==
    \A c \in AllConsumers :
        LET p == proc[c]
        IN  (p.res = "SUCCESS" /\ p.pc \in {"queueOp", "returned"}) => p.op.kind = "ack"

TerminalStatuses == {"SENT", "FAILED", "REJECTED"}

\* C36: within one log row, once a terminal status (SENT, FAILED or REJECTED)
\* has been written, no later write of the same invocation sets a different
\* status; in particular the exception path never puts FAILED over SENT or
\* REJECTED.
C36_TerminalStatusKept ==
    \A c \in AllConsumers :
        LET trail == proc[c].log.trail
        IN  \A i \in 1..Len(trail) : \A j \in 1..Len(trail) :
                (i < j /\ trail[i] \in TerminalStatuses) => trail[j] = trail[i]

\* An invocation has written SENT and settled its delivery, on a consumer
\* whose log store can fail.
C36_Witness ==
    \E c \in AllConsumers :
        /\ cfg.logFaults
        /\ proc[c].pc = "returned"
        /\ proc[c].log.status = "SENT"
        /\ proc[c].op.kind = "ack"

\* The delivery of consumer c is in flight: received and not acknowledged.
InFlight(c, id) ==
    /\ proc[c].ev.id = id
    /\ proc[c].pc \notin {"idle", "returned", "stopped"}
    /\ proc[c].settled = 0

\* The SendRequest `id` is on the main queue, on the delay path or in flight.
Present(id) == Queued(id) \/ \E c \in AllConsumers : InFlight(c, id)

\* C37: in a delayed nack, on both adapters, the copy is published before the
\* original delivery is removed: whatever step a consumer takes while it is in
\* the delay branch of nack (first call, second call, a failing call, or the
\* process dying between the two), the SendRequest is afterwards on the main
\* queue, on the delay path or in flight.
C37_DelayedNackKeepsMessage ==
    [][\A c \in AllConsumers, id \in MsgIds :
         ((proc[c].ev.id = id
             /\ proc[c].pc \in {"queueOp", "nackSecond"}
             /\ DelayedNack(cfg.adapter, proc[c].op)
             /\ proc'[c] # proc[c])
            => Present(id)')]_vars

\* The consumer died between the two calls of a delayed nack: the copy is on
\* the delay path and the original is back on the main queue.
C37_Witness ==
    \E d \in delayQ, m \in mainQ :
        /\ d.msg.id = m.id
        /\ d.msg.retryCount = m.retryCount + 1
        /\ proc["c1"].pc = "idle"
        /\ hist.failRequeues[m.id] = 0

\* C38: the failing deliveries of one SendRequest are bounded on both
\* adapters, also when the handler throws outside its own error handling: a
\* message whose handler has thrown is never made deliverable again with the
\* retryCount it was delivered with.
C38_NoRedeliveryWithoutCount ==
    [][\A c \in AllConsumers :
         (proc[c].pc = "thrown" /\ proc[c].settled = 0 /\ proc'[c].pc # "thrown")
           => StripHandle(proc[c].ev) \notin (mainQ' \cup { d.msg : d \in delayQ' })]_vars

\* The invocation of `id` has ended with a terminal log status and an ack.
SettledForGood(id) ==
    \E c \in AllConsumers :
        /\ proc[c].ev.id = id
        /\ proc[c].pc = "returned"
        /\ proc[c].op.kind = "ack"
        /\ proc[c].log.status \in TerminalStatuses

\* C39: under fair delivery every SendRequest on the main queue (none is
\* deferred for quota here) eventually has a log row with a terminal status
\* and is removed by an ack. Deliveries are counted up to MaxDeliveries; a run
\* that uses them all up is not held against the property.
C39_EventuallySettled ==
    \A id \in MsgIds :
        (\E m \in mainQ : m.id = id) ~> (SettledForGood(id) \/ nDeliv = MaxDeliveries)

\* C40: after SQSAdapter.close() has returned no further poll is scheduled
\* and the handler is not invoked for a message received afterwards, also
\* when close() is called while a poll is in flight.
C40_CloseStopsPolling ==
    (hist.closedAt >= 0) =>
        \A c \in cfg.consumers :
            /\ proc[c].pc # "timer"
            /\ proc[c].ev.id # 0 => proc[c].ev.handle <= hist.closedAt

====
